---- MODULE Spec2Model ----
(***************************************************************************)
(* A model of the resume analyzer: the three-step Streamlit wizard of      *)
(* app.py (Setup, Analysis, Results), its helpers (get_api_key,            *)
(* extract_score, parse_feedback, fetch_jd, create_templated_docx) and     *)
(* extract_text of tools.py.                                               *)
(*                                                                         *)
(* Texts are sequences of one-character strings, so that the string        *)
(* operations of the code (find, split, replace, strip, lower, regular     *)
(* expression search) are modelled by what they do to the characters.      *)
(***************************************************************************)
EXTENDS Integers, Sequences, FiniteSets, TLC

VARIABLES
    \* ---- the score of a report (app.py 52-56, 251-264)
    report,          \* the report text handed to extract_score
    score,           \* the extracted score, None before the extraction
    progress,        \* what st.progress(score/100) did
    \* ---- extract_text (tools.py 21-36)
    file,            \* the file at file_path: its path, whether it exists, its content
    extracted,       \* what extract_text returned
    extractPc,       \* "call" before the call, "returned" after it
    \* ---- fetch_jd (app.py 123-157)
    request,         \* the URL's length, what requests.get did, the page it got
    fetched,         \* what fetch_jd returned: its kind and its length
    \* ---- parse_feedback (app.py 159-174)
    feedbackText,    \* the text handed to parse_feedback
    feedbackLines,   \* str(text).split('\n'), the lines the loop goes through
    lineNo,          \* the lines the loop has gone through
    current_section, \* "requirements" or "qualifications"
    prio,            \* "high", "medium" or "low"
    sections,        \* the items of each section and priority
    added,           \* the item the last line added, if it added one
    \* ---- the wizard (app.py 30-37, 177-358)
    step,                  \* st.session_state.step: 1 Setup, 2 Analysis, 3 Results
    provider,              \* st.session_state.provider
    environ,               \* os.environ: the two API keys
    up,                    \* whether the file uploader holds a resume
    jd_text,               \* st.session_state.jd_text, kept by its length
    resume_path,           \* st.session_state.resume_path: "unset" or "tmp"
    analysis_result,       \* st.session_state.analysis_result
    optimized_result,      \* st.session_state.optimized_result
    selected_improvements, \* st.session_state.selected_improvements
    selected_template,     \* st.session_state.selected_template
    checked,               \* the keys of the ticked check boxes of the Analysis page
    text_default,          \* the value the "Final Polish" text area was built with
    screen,                \* what the last run of the script showed
    event,                 \* the handler that ran last and the LLM call it made
    \* ---- create_pdf and create_templated_docx (app.py 68-121)
    resumeText,      \* the text both renderers are given
    renderTemplate,  \* the template_name both are given
    docxDoc,         \* what create_templated_docx made of it
    pdfDoc           \* what create_pdf made of it

None == "None"

\* None where a text may stand (page.extract_text() of a page without text)
NoneText == <<"None">>

\* None where a found element may stand (select_one, soup.body): <<>> for None,
\* <<region>> for an element
Missing == <<>>

scoreVars == <<report, score, progress>>
extractVars == <<file, extracted, extractPc>>
fetchVars == <<request, fetched>>
parseVars == <<feedbackText, feedbackLines, lineNo, current_section, prio, sections, added>>

wizardVars ==
    <<step, provider, environ, up, jd_text, resume_path, analysis_result,
      optimized_result, selected_improvements, selected_template, checked,
      text_default, screen, event>>

renderVars == <<resumeText, renderTemplate, docxDoc, pdfDoc>>

vars == <<scoreVars, extractVars, fetchVars, parseVars, wizardVars, renderVars>>

\* the variables outside each part
notScore == <<extractVars, fetchVars, parseVars, wizardVars, renderVars>>
notExtract == <<scoreVars, fetchVars, parseVars, wizardVars, renderVars>>
notFetch == <<scoreVars, extractVars, parseVars, wizardVars, renderVars>>
notParse == <<scoreVars, extractVars, fetchVars, wizardVars, renderVars>>
notWizard == <<scoreVars, extractVars, fetchVars, parseVars, renderVars>>
notRender == <<scoreVars, extractVars, fetchVars, parseVars, wizardVars>>

\* the variables of a part of the program that a specification leaves out
ScoreIdle == report = <<>> /\ score = None /\ progress = "idle"
ExtractIdle == file = None /\ extracted = <<>> /\ extractPc = "idle"
FetchIdle == request = None /\ fetched = [kind |-> "idle", len |-> 0]
ParseIdle ==
    /\ feedbackText = <<>> /\ feedbackLines = <<>> /\ lineNo = 0
    /\ current_section = None /\ prio = None
    /\ sections = None /\ added = None

WizardIdle ==
    /\ step = 0 /\ provider = None /\ environ = None /\ up = FALSE /\ jd_text = 0
    /\ resume_path = None /\ analysis_result = None /\ optimized_result = None
    /\ selected_improvements = None /\ selected_template = None /\ checked = {}
    /\ text_default = None /\ screen = None /\ event = None

RenderIdle ==
    resumeText = None /\ renderTemplate = None /\ docxDoc = None /\ pdfDoc = None

IdleBut(part) ==
    /\ IF part = "render" THEN TRUE ELSE RenderIdle
    /\ IF part = "wizard" THEN TRUE ELSE WizardIdle
    /\ IF part = "score" THEN TRUE ELSE ScoreIdle
    /\ IF part = "extract" THEN TRUE ELSE ExtractIdle
    /\ IF part = "fetch" THEN TRUE ELSE FetchIdle
    /\ IF part = "parse" THEN TRUE ELSE ParseIdle

(***************************************************************************)
(* Python's str operations on sequences of characters.                     *)
(***************************************************************************)

\* the (ASCII) white space of str.isspace(), str.strip() and \s
WhiteSpace == {" ", "\n", "\t", "\r", "\f"}

IsSpace(c) == c \in WhiteSpace

\* \d of one character
IsDigit(c) == c \in {"0", "1", "2", "3", "4", "5", "6", "7", "8", "9"}

\* int() of one digit
DigitVal(c) ==
    CASE c = "0" -> 0 [] c = "1" -> 1 [] c = "2" -> 2 [] c = "3" -> 3
      [] c = "4" -> 4 [] c = "5" -> 5 [] c = "6" -> 6 [] c = "7" -> 7
      [] c = "8" -> 8 [] c = "9" -> 9

\* int() of a string of digits
RECURSIVE IntOf(_)
IntOf(s) ==
    IF s = <<>> THEN 0
    ELSE 10 * IntOf(SubSeq(s, 1, Len(s) - 1)) + DigitVal(s[Len(s)])

UpperChars == <<"A","B","C","D","E","F","G","H","I","J","K","L","M",
                "N","O","P","Q","R","S","T","U","V","W","X","Y","Z">>
LowerChars == <<"a","b","c","d","e","f","g","h","i","j","k","l","m",
                "n","o","p","q","r","s","t","u","v","w","x","y","z">>

UpperSet == {UpperChars[i] : i \in 1..26}
LowerSet == {LowerChars[i] : i \in 1..26}
LowerOf == [c \in UpperSet |-> LowerChars[CHOOSE i \in 1..26 : UpperChars[i] = c]]

\* str.lower() of one character
LowerChar(c) == IF c \in UpperSet THEN LowerOf[c] ELSE c

\* str.lower()
Lower(s) == [i \in 1..Len(s) |-> LowerChar(s[i])]

\* the cased characters outside ASCII that the texts here hold: the Cyrillic
\* capitals U+0414, U+0410 and the small letter U+0434
CyrillicUpper == {"u0414", "u0410"}
CyrillicLower == {"u0434"}

\* str.isupper(): a cased character exists and no cased character is lower case
IsUpper(s) ==
    /\ \E i \in 1..Len(s) : s[i] \in UpperSet \cup CyrillicUpper
    /\ \A i \in 1..Len(s) : s[i] \notin LowerSet \cup CyrillicLower

\* s[i:i+len(p)] == p
StartsWithAt(s, p, i) ==
    /\ i >= 1
    /\ i + Len(p) - 1 <= Len(s)
    /\ \A j \in 1..Len(p) : s[i + j - 1] = p[j]

\* p in s
Contains(s, p) == \E i \in 1..(Len(s) - Len(p) + 1) : StartsWithAt(s, p, i)

\* s.find(p, from), 1-based, 0 when p does not occur
RECURSIVE Find(_, _, _)
Find(s, p, from) ==
    IF from + Len(p) - 1 > Len(s) THEN 0
    ELSE IF StartsWithAt(s, p, from) THEN from
    ELSE Find(s, p, from + 1)

\* s.split(p), p not empty: the pieces between the occurrences of p, left to right
RECURSIVE Split(_, _)
Split(s, p) ==
    LET i == Find(s, p, 1)
    IN  IF i = 0 THEN <<s>>
        ELSE <<SubSeq(s, 1, i - 1)>> \o Split(SubSeq(s, i + Len(p), Len(s)), p)

\* sep.join(parts)
RECURSIVE Join(_, _)
Join(parts, sep) ==
    IF parts = <<>> THEN <<>>
    ELSE IF Len(parts) = 1 THEN parts[1]
    ELSE parts[1] \o sep \o Join(Tail(parts), sep)

\* s.replace(p, r)
Replace(s, p, r) == Join(Split(s, p), r)

\* the first index from i on, going up, whose character is not in chars
RECURSIVE FirstKept(_, _, _)
FirstKept(s, chars, i) ==
    IF i > Len(s) \/ s[i] \notin chars THEN i ELSE FirstKept(s, chars, i + 1)

\* the first index from i on, going down, whose character is not in chars
RECURSIVE LastKept(_, _, _)
LastKept(s, chars, i) ==
    IF i < 1 \/ s[i] \notin chars THEN i ELSE LastKept(s, chars, i - 1)

\* s.lstrip(chars) with chars a set of characters
LStripChars(s, chars) == SubSeq(s, FirstKept(s, chars, 1), Len(s))

\* s.rstrip(chars)
RStripChars(s, chars) == SubSeq(s, 1, LastKept(s, chars, Len(s)))

\* s.strip(chars)
StripChars(s, chars) == RStripChars(LStripChars(s, chars), chars)

\* s.strip()
Strip(s) == StripChars(s, WhiteSpace)

\* the concatenation of a sequence of texts
Concat(parts) == Join(parts, <<>>)

\* every sequence of at most n elements of S
SeqsUpTo(S, n) == UNION {[1..k -> S] : k \in 0..n}

(***************************************************************************)
(* extract_score (app.py 52-56)                                            *)
(***************************************************************************)

\* the end of \s* started at q: the first index >= q that holds no white space
SkipSpace(s, q) == FirstKept(s, WhiteSpace, q)

\* \s*/\s*100 matches at q
SlashHundredAt(s, q) ==
    LET a == SkipSpace(s, q)
    IN  /\ a <= Len(s)
        /\ s[a] = "/"
        /\ StartsWithAt(s, <<"1","0","0">>, SkipSpace(s, a + 1))

\* (\d{1,3})\s*/\s*100 matches at p with a group of k digits
SlashMatchAt(s, p, k) ==
    /\ p + k - 1 <= Len(s)
    /\ \A j \in p..(p + k - 1) : IsDigit(s[j])
    /\ SlashHundredAt(s, p + k)

ScoreLabels == {<<"s","c","o","r","e">>, <<"m","a","t","c","h">>,
                <<"l","i","k","e","l","i","h","o","o","d">>}

\* (?:Score|Match|Likelihood):\s* matches at p, case ignored; the place of the
\* digits it leaves, 0 when it does not match
LabelEnd(s, p) ==
    LET ls == {l \in ScoreLabels :
                  /\ p + Len(l) <= Len(s)
                  /\ \A j \in 1..Len(l) : LowerChar(s[p + j - 1]) = l[j]
                  /\ s[p + Len(l)] = ":"}
    IN  IF ls = {} THEN 0
        ELSE SkipSpace(s, p + Len(CHOOSE l \in ls : TRUE) + 1)

\* (?:Score|Match|Likelihood):\s*(\d{1,3}) matches at p with a group of k digits
LabelMatchAt(s, p, k) ==
    LET q == LabelEnd(s, p)
    IN  /\ q # 0
        /\ q + k - 1 <= Len(s)
        /\ \A j \in q..(q + k - 1) : IsDigit(s[j])

\* re.search over the matches <<p, k>> (start, digits in the group): the leftmost
\* start, and there the longest group (\d{1,3} is greedy); <<0, 0>> for no match
Leftmost(matches) ==
    IF matches = {} THEN <<0, 0>>
    ELSE CHOOSE m \in matches :
            \A n \in matches : m[1] < n[1] \/ (m[1] = n[1] /\ m[2] >= n[2])

\* re.search(r"(\d{1,3})\s*/\s*100", text)
SlashSearch(s) ==
    Leftmost({m \in (1..Len(s)) \X (1..3) : SlashMatchAt(s, m[1], m[2])})

\* re.search(r"(?:Score|Match|Likelihood):\s*(\d{1,3})", text, re.IGNORECASE)
LabelSearch(s) ==
    Leftmost({m \in (1..Len(s)) \X (1..3) : LabelMatchAt(s, m[1], m[2])})

\* the mutant of extract_score that searches the labeled pattern first
extract_score_label_first(text) ==
    LET m == LabelSearch(text)
        n == SlashSearch(text)
    IN  IF m[1] # 0
        THEN LET q == LabelEnd(text, m[1]) IN IntOf(SubSeq(text, q, q + m[2] - 1))
        ELSE IF n[1] # 0 THEN IntOf(SubSeq(text, n[1], n[1] + n[2] - 1))
        ELSE 0

extract_score(text) ==
    LET m == SlashSearch(text)
        n == LabelSearch(text)
    IN  IF m[1] # 0 THEN IntOf(SubSeq(text, m[1], m[1] + m[2] - 1))
        ELSE IF n[1] # 0
        THEN LET q == LabelEnd(text, n[1]) IN IntOf(SubSeq(text, q, q + n[2] - 1))
        ELSE 0

(***************************************************************************)
(* The score of the Analysis step (app.py 251-264): the reports are every  *)
(* text of at most MaxScoreTokens of the tokens below.                     *)
(***************************************************************************)

MaxScoreTokens == 4

ScoreTokens ==
    {<<"1">>, <<"0">>, <<"7">>, <<"/">>, <<" ">>, <<"x">>,
     <<"/","1","0","0">>,
     <<"S","c","o","r","e",":">>,
     <<"m","a","t","c","h",":">>}

ScoreReports == {Concat(ts) : ts \in SeqsUpTo(ScoreTokens, MaxScoreTokens)}

ScoreInit ==
    /\ report \in ScoreReports
    /\ score = None
    /\ progress = "none"
    /\ IdleBut("score")

\* st.progress(value): a float outside [0.0, 1.0] raises StreamlitAPIException
st_progress(value100) ==
    IF value100 >= 0 /\ value100 <= 100 THEN "shown" ELSE "StreamlitAPIException"

\* the head of the Analysis page: the score and its progress bar
AnalysisScore ==
    /\ progress = "none"
    /\ score' = extract_score(report)
    /\ progress' = st_progress(score')
    /\ UNCHANGED <<report, notScore>>

ScoreNext == AnalysisScore

SpecScore == ScoreInit /\ [][ScoreNext]_vars

(***************************************************************************)
(* The occurrences of a score in a text, stated without the search: a run  *)
(* of digits s[i..j] that no digit precedes or follows, with /100 after it *)
(* (white space allowed around the slash, as the pattern allows it), and a *)
(* label Score:, Match: or Likelihood: with a run of digits after it.      *)
(***************************************************************************)
DigitRun(s, i, j) ==
    /\ 1 <= i /\ i <= j /\ j <= Len(s)
    /\ \A x \in i..j : IsDigit(s[x])
    /\ i = 1 \/ ~IsDigit(s[i - 1])
    /\ j = Len(s) \/ ~IsDigit(s[j + 1])

SlashRuns(s) ==
    {r \in (1..Len(s)) \X (1..Len(s)) :
        /\ DigitRun(s, r[1], r[2])
        /\ \E a \in (r[2] + 1)..Len(s) : \E b \in (a + 1)..Len(s) :
              /\ s[a] = "/"
              /\ \A x \in (r[2] + 1)..(a - 1) : IsSpace(s[x])
              /\ \A x \in (a + 1)..(b - 1) : IsSpace(s[x])
              /\ StartsWithAt(s, <<"1","0","0">>, b)}

LabelRuns(s) ==
    {r \in (1..Len(s)) \X (1..Len(s)) :
        /\ DigitRun(s, r[1], r[2])
        /\ \E c \in 1..(r[1] - 1) : \E l \in ScoreLabels :
              /\ s[c] = ":"
              /\ \A x \in (c + 1)..(r[1] - 1) : IsSpace(s[x])
              /\ c > Len(l)
              /\ Lower(SubSeq(s, c - Len(l), c - 1)) = l}

FirstRun(runs) == CHOOSE r \in runs : \A q \in runs : r[1] <= q[1]

RunValue(s, r) == IntOf(SubSeq(s, r[1], r[2]))

\* a run that is a number NN of at most three digits, 0 <= NN <= 100
InRange(s, r) == r[2] - r[1] < 3 /\ RunValue(s, r) <= 100

\* C4: when the report holds NN/100 and the first such NN is in 0..100, the
\* score is that NN, whatever labeled pattern the report also holds; when it
\* holds no NN/100 but a labeled number of at most three digits, the score is
\* the first labeled number; when it holds neither pattern the score is 0.
C4_ScoreExtraction ==
    progress \in {"shown", "StreamlitAPIException"} =>
        LET sl == SlashRuns(report)
            lb == LabelRuns(report)
        IN  /\ (sl # {} /\ InRange(report, FirstRun(sl)))
                  => score = RunValue(report, FirstRun(sl))
            /\ (sl = {} /\ lb # {} /\ FirstRun(lb)[2] - FirstRun(lb)[1] < 3)
                  => score = RunValue(report, FirstRun(lb))
            /\ (sl = {} /\ lb = {}) => score = 0

\* C4's case: a report that holds a labeled number and, after it, another
\* number NN/100, of which the score is the NN
C4_Witness ==
    /\ progress \in {"shown", "StreamlitAPIException"}
    /\ SlashRuns(report) # {} /\ LabelRuns(report) # {}
    /\ InRange(report, FirstRun(SlashRuns(report)))
    /\ RunValue(report, FirstRun(LabelRuns(report)))
          # RunValue(report, FirstRun(SlashRuns(report)))
    /\ score = RunValue(report, FirstRun(SlashRuns(report)))
    /\ score > 0

\* C5: the score the Analysis step uses is an integer in 0..100, and the
\* progress bar is drawn with a value in its bounds.
C5_ScoreInRange ==
    progress \in {"shown", "StreamlitAPIException"} => (score \in 0..100 /\ progress = "shown")

(***************************************************************************)
(* extract_text (tools.py 21-36).  A file is its path, whether the path    *)
(* exists, whether its reader can decode it (it raises otherwise), and its *)
(* content: the texts of its pages (pdfplumber: page.extract_text(), None  *)
(* for a page without text) or of its paragraphs (python-docx: para.text). *)
(***************************************************************************)

\* s.endswith(p)
EndsWith(s, p) == Len(p) <= Len(s) /\ SubSeq(s, Len(s) - Len(p) + 1, Len(s)) = p

ErrNoPath ==
    <<"E","r","r","o","r",":"," ","F","i","l","e"," ","p","a","t","h"," ",
      "d","o","e","s"," ","n","o","t"," ","e","x","i","s","t",".">>
ErrNoText ==
    <<"E","r","r","o","r",":"," ","N","o"," ","t","e","x","t"," ","c","o","u","l","d"," ",
      "b","e"," ","e","x","t","r","a","c","t","e","d",".">>
ErrReading ==
    <<"E","r","r","o","r"," ","r","e","a","d","i","n","g"," ","f","i","l","e",":"," ">>

\* str(e) of the exception a reader raises on a file it cannot decode
ReaderMessage == <<"b","a","d">>

\* text += page.extract_text() or "" over the pages
RECURSIVE PdfText(_)
PdfText(pages) ==
    IF pages = <<>> THEN <<>>
    ELSE (IF pages[1] = NoneText THEN <<>> ELSE pages[1]) \o PdfText(Tail(pages))

extract_text(f) ==
    IF ~f.exists THEN ErrNoPath
    ELSE IF ~f.readable
              /\ (EndsWith(f.path, <<".","p","d","f">>)
                  \/ EndsWith(f.path, <<".","d","o","c","x">>))
    THEN ErrReading \o ReaderMessage
    ELSE LET text == IF EndsWith(f.path, <<".","p","d","f">>) THEN PdfText(f.content)
                     ELSE IF EndsWith(f.path, <<".","d","o","c","x">>)
                     THEN Join(f.content, <<"\n">>)
                     ELSE <<>>
         IN  IF text # <<>> THEN Strip(text) ELSE ErrNoText

MaxPages == 2

Paths == {<<"r",".","p","d","f">>, <<"r",".","d","o","c","x">>,
          <<"r",".","P","D","F">>, <<"r">>}

PageTexts == {<<>>, <<" ">>, <<"\n">>, <<"a">>, <<" ","a">>, <<"a","\n","b">>}

\* what a file can hold: python-docx gives every paragraph a text, pdfplumber
\* gives None for a page without text
Files ==
    {f \in [path : Paths, exists : BOOLEAN, readable : BOOLEAN,
            content : SeqsUpTo(PageTexts \cup {NoneText}, MaxPages)] :
        /\ ~f.exists => ~f.readable
        /\ ~f.readable => f.content = <<>>
        /\ ~EndsWith(f.path, <<".","p","d","f">>)
              => \A i \in 1..Len(f.content) : f.content[i] # NoneText}

ExtractInit ==
    /\ file \in Files
    /\ extracted = <<>>
    /\ extractPc = "call"
    /\ IdleBut("extract")

ExtractText ==
    /\ extractPc = "call"
    /\ extracted' = extract_text(file)
    /\ extractPc' = "returned"
    /\ UNCHANGED <<file, notExtract>>

ExtractNext == ExtractText

SpecExtract == ExtractInit /\ [][ExtractNext]_vars

\* the text an existing, readable document holds
DocumentText(f) ==
    IF EndsWith(f.path, <<".","p","d","f">>) THEN PdfText(f.content)
    ELSE IF EndsWith(f.path, <<".","d","o","c","x">>) THEN Join(f.content, <<"\n">>)
    ELSE <<>>

IsExtractionError(t) ==
    \/ t = ErrNoPath
    \/ t = ErrNoText
    \/ StartsWithAt(t, ErrReading, 1)

\* C8: extract_text returns either an extraction error (no such path, a decode
\* failure, no text extracted: an empty or all-white-space document included)
\* or a text that is not empty.
C8_NoEmptySuccess ==
    extractPc = "returned" =>
        /\ IsExtractionError(extracted) \/ extracted # <<>>
        /\ (file.exists /\ file.readable
              /\ \A i \in 1..Len(DocumentText(file)) : IsSpace(DocumentText(file)[i]))
              => extracted = ErrNoText

(***************************************************************************)
(* fetch_jd (app.py 123-157).  The texts of a page are kept by their       *)
(* lengths: a block is its tag, the length of its text, the characters the *)
(* collapse of its white space removes, whether it holds a noise or a      *)
(* priority keyword, and the identity of its first 30 characters.          *)
(***************************************************************************)

MaxJdLength == 8000

\* len("Scraping Error: ") and
\* len(". Please copy/paste the JD text manually for best results.")
ScrapingPrefixLen == 16
ScrapingSuffixLen == 58

ContentSelectors ==
    <<"article", "main", ".job-description", ".show-more-less-html__markup",
      "#jobDescriptionText", "[class*='jobDescription']", ".description__text",
      ".careers-job-description">>

\* main_content: the region of the first selector that finds one, else soup.body
Target(page) ==
    LET hit == {i \in 1..Len(ContentSelectors) : page.found[ContentSelectors[i]] # Missing}
    IN  IF hit = {} THEN page.body
        ELSE page.found[ContentSelectors[CHOOSE i \in hit : \A j \in hit : i <= j]]

\* lines 143-150: the blocks kept, each after the collapse of its white space
RECURSIVE RelevantText(_)
RelevantText(blocks) ==
    IF blocks = <<>> THEN <<>>
    ELSE LET b == blocks[1]
             keep == /\ ~(b.len < 15)
                     /\ ~b.noise
                     /\ (b.priority \/ b.name = "li" \/ b.len > 40)
         IN  (IF keep THEN <<[len |-> b.len - b.spaces, head |-> b.head]>> ELSE <<>>)
                \o RelevantText(Tail(blocks))

\* lines 151-154: a line is dropped when its first 30 characters are those of
\* the line kept before it
RECURSIVE FinalLines(_, _)
FinalLines(lines, kept) ==
    IF lines = <<>> THEN kept
    ELSE FinalLines(Tail(lines),
                    IF kept = <<>> \/ lines[1].head # kept[Len(kept)].head
                    THEN Append(kept, lines[1]) ELSE kept)

\* len("\n\n".join(final_lines))
RECURSIVE JoinedLength(_)
JoinedLength(lines) ==
    IF lines = <<>> THEN 0
    ELSE IF Len(lines) = 1 THEN lines[1].len
    ELSE lines[1].len + 2 + JoinedLength(Tail(lines))

Min(a, b) == IF a <= b THEN a ELSE b

fetch_jd(req) ==
    IF req.outcome = "raise"
    THEN [kind |-> "error", len |-> ScrapingPrefixLen + req.msgLen + ScrapingSuffixLen]
    ELSE LET target == Target(req.page)
             lines == IF target = Missing THEN <<>>
                      ELSE FinalLines(RelevantText(target[1]), <<>>)
         IN  [kind |-> "text", len |-> Min(JoinedLength(lines), MaxJdLength)]

MaxBlocks == 2

BlockLengths == {14, 15, 41, 5000}

Blocks ==
    {b \in [name : {"p", "li"}, len : BlockLengths, spaces : {0, 3},
            noise : BOOLEAN, priority : BOOLEAN, head : {"h1", "h2"}] :
        b.noise => ~b.priority /\ b.spaces = 0}

Regions == SeqsUpTo(Blocks, MaxBlocks)

\* a page: the region each selector finds (Missing: it finds none) and its body
Pages ==
    {[found |-> [sel \in {ContentSelectors[i] : i \in 1..Len(ContentSelectors)} |->
                    IF sel = "main" THEN m
                    ELSE IF sel = "#jobDescriptionText" THEN j ELSE Missing],
      body |-> b] :
        m \in {Missing} \cup {<<r>> : r \in Regions},
        j \in {Missing, <<<<>>>>},
        b \in {Missing, <<<<[name |-> "p", len |-> 5000, spaces |-> 0, noise |-> FALSE,
                             priority |-> FALSE, head |-> "h1"]>>>>}}

NoPage == [found |-> [sel \in {ContentSelectors[i] : i \in 1..Len(ContentSelectors)} |->
                         Missing],
           body |-> Missing]

\* str(e) holds the URL (requests: "Invalid URL '<url>': No scheme supplied",
\* "404 Client Error: Not Found for url: <url>"), so it is as long as the URL is
UrlLengths == {20, 8000}
MessageOverhead == 39

Requests ==
    {[urlLen |-> u, outcome |-> "raise", msgLen |-> MessageOverhead + u, page |-> NoPage] :
        u \in UrlLengths}
    \cup {[urlLen |-> 20, outcome |-> "ok", msgLen |-> 0, page |-> p] : p \in Pages}

FetchInit ==
    /\ request \in Requests
    /\ fetched = [kind |-> "none", len |-> 0]
    /\ IdleBut("fetch")

FetchJd ==
    /\ fetched.kind = "none"
    /\ fetched' = fetch_jd(request)
    /\ UNCHANGED <<request, notFetch>>

FetchNext == FetchJd

SpecFetch == FetchInit /\ [][FetchNext]_vars

\* C10: fetch_jd never returns a text of more than 8000 characters, whether
\* the page was fetched or the fetch failed.
C10_FetchBounded == fetched.kind # "none" => fetched.len <= MaxJdLength

(***************************************************************************)
(* parse_feedback (app.py 159-174): one step of the model is one turn of   *)
(* its loop over the lines of the text.                                    *)
(***************************************************************************)

KwQualification == <<"q","u","a","l","i","f","i","c","a","t","i","o","n">>
KwExperience == <<"e","x","p","e","r","i","e","n","c","e">>
KwRequirement == <<"r","e","q","u","i","r","e","m","e","n","t">>
KwSkill == <<"s","k","i","l","l">>
KwHigh == <<"[","h","i","g","h","]">>
KwCritical == <<"c","r","i","t","i","c","a","l">>
KwLow == <<"[","l","o","w","]">>
KwMedium == <<"[","m","e","d","i","u","m","]">>
KwImportant == <<"i","m","p","o","r","t","a","n","t">>
TagHigh == <<"[","H","I","G","H","]">>
TagMedium == <<"[","M","E","D","I","U","M","]">>
TagLow == <<"[","L","O","W","]">>

\* the bullet glyph as the source file spells it: the three characters
\* U+201A U+00C4 U+00A2, each written here by its code point
BulletGlyph == <<"u201A", "u00C4", "u00A2">>

\* the prefixes of line.strip().startswith((...))
BulletMarkers == {<<"-">>, <<"*">>, BulletGlyph, <<"1",".">>}

\* the characters of lstrip('- *<glyph>1.2.3.')
BulletChars == {"-", " ", "*", "u201A", "u00C4", "u00A2", "1", ".", "2", "3"}

\* line 165-166
SectionAfter(section, l) ==
    IF Contains(l, KwQualification) \/ Contains(l, KwExperience) THEN "qualifications"
    ELSE IF Contains(l, KwRequirement) \/ Contains(l, KwSkill) THEN "requirements"
    ELSE section

\* lines 167-169
PrioAfter(p, l) ==
    IF Contains(l, KwHigh) \/ Contains(l, KwCritical) THEN "high"
    ELSE IF Contains(l, KwLow) THEN "low"
    ELSE IF Contains(l, KwMedium) \/ Contains(l, KwImportant) THEN "medium"
    ELSE p

\* line 170
IsBullet(line) == \E m \in BulletMarkers : StartsWithAt(Strip(line), m, 1)

\* line 171
ItemOf(line) ==
    Strip(Replace(Replace(Replace(LStripChars(Strip(line), BulletChars),
                                  TagHigh, <<>>), TagMedium, <<>>), TagLow, <<>>))

EmptySections ==
    [s \in {"requirements", "qualifications"} |->
        [p \in {"high", "medium", "low"} |-> <<>>]]

NoItem == [present |-> FALSE, section |-> None, prio |-> None, text |-> <<>>]

MaxLines == 3

MarkerLines ==
    {<<"S","E","C","T","I","O","N",":"," ","J","O","B"," ",
       "R","E","Q","U","I","R","E","M","E","N","T","S"," ","G","A","P","S">>,
     <<"S","E","C","T","I","O","N",":"," ",
       "Q","U","A","L","I","F","I","C","A","T","I","O","N"," ","G","A","P","S">>,
     <<"S","E","C","T","I","O","N",":"," ","M","A","T","C","H","E","S">>}

StatusTags == {<<>>, <<"[","M","I","S","S","I","N","G","]">>,
               <<"[","R","E","P","U","R","P","O","S","E","]">>}
PriorityTags == {<<>>, TagHigh, TagMedium, TagLow}
ItemNames == {<<"K","u","b","e","r","n","e","t","e","s">>, <<"S","Q","L">>}

\* the lines the prompt asks for: "- [MISSING/REPURPOSE][PRIORITY] Keyword"
BulletLines ==
    {<<"-"," ">> \o st \o pt \o <<" ">> \o nm :
        st \in StatusTags, pt \in PriorityTags, nm \in ItemNames}

FeedbackTexts ==
    {Join(ls, <<"\n">>) : ls \in SeqsUpTo(MarkerLines \cup BulletLines, MaxLines)}

ParseInit ==
    /\ feedbackText \in FeedbackTexts
    /\ feedbackLines = Split(feedbackText, <<"\n">>)
    /\ lineNo = 0
    /\ current_section = "requirements"
    /\ prio = "medium"
    /\ sections = EmptySections
    /\ added = NoItem
    /\ IdleBut("parse")

\* one turn of the loop of parse_feedback
ParseLine ==
    /\ lineNo < Len(feedbackLines)
    /\ LET line == feedbackLines[lineNo + 1]
           l == Lower(line)
           sec == SectionAfter(current_section, l)
           pr == PrioAfter(prio, l)
           item == ItemOf(line)
           adds == IsBullet(line) /\ Len(item) > 3
       IN  /\ lineNo' = lineNo + 1
           /\ current_section' = sec
           /\ prio' = pr
           /\ sections' = IF adds
                          THEN [sections EXCEPT ![sec][pr] = Append(@, item)]
                          ELSE sections
           /\ added' = IF adds
                       THEN [present |-> TRUE, section |-> sec, prio |-> pr, text |-> item]
                       ELSE NoItem
    /\ UNCHANGED <<feedbackText, feedbackLines, notParse>>

ParseNext == ParseLine

SpecParse == ParseInit /\ [][ParseNext]_vars

\* the priority a line's own tag gives it: Low when it carries none
OwnPriority(line) ==
    IF Contains(line, TagHigh) THEN "high"
    ELSE IF Contains(line, TagMedium) THEN "medium"
    ELSE "low"

HasBracketed(text) ==
    \E i \in 1..Len(text) : \E j \in (i + 1)..Len(text) : text[i] = "[" /\ text[j] = "]"

\* a line that names a gaps section, before the line just parsed
AfterGapsMarker ==
    \E k \in 1..(lineNo - 1) :
        /\ ~IsBullet(feedbackLines[k])
        /\ Contains(feedbackLines[k], <<"G","A","P","S">>)

\* C6: a bulleted line after a section marker gives an item whose priority is
\* that of the line's own tag (Low without a tag, whatever the lines before it
\* carry) and whose text holds no bracketed [...] substring.  (The items of the
\* code are plain texts: they carry no status the claim's Missing/Repurpose
\* could be compared with, and a status tag stays in the text.)
C6_PerLineTagging ==
    (lineNo > 0 /\ AfterGapsMarker /\ IsBullet(feedbackLines[lineNo]) /\ added.present) =>
        /\ added.prio = OwnPriority(feedbackLines[lineNo])
        /\ ~HasBracketed(added.text)

\* the section a marker line names: "none" for a line that is no marker
MarkedSection(line) ==
    IF line \notin MarkerLines THEN "none"
    ELSE IF Contains(line, <<"M","A","T","C","H","E","S">>) THEN "matches"
    ELSE IF Contains(line, <<"Q","U","A","L","I","F","I","C","A","T","I","O","N">>)
    THEN "qualifications"
    ELSE "requirements"

\* the section named by the most recent marker line among the lines parsed
LastMarkedSection ==
    LET seen == {k \in 1..lineNo : MarkedSection(feedbackLines[k]) # "none"}
    IN  IF seen = {} THEN "none"
        ELSE MarkedSection(feedbackLines[CHOOSE k \in seen : \A j \in seen : j <= k])

\* C11: only marker lines change the section: a bulleted line that gives an
\* item gives it to the section of the most recent marker line, so a bullet
\* under the MATCHES marker gives no gap item, and a bullet under a gaps
\* marker gives an item of that gaps section.
C11_SectionByMarker ==
    (added.present /\ LastMarkedSection # "none") =>
        /\ LastMarkedSection # "matches"
        /\ added.section = LastMarkedSection

(***************************************************************************)
(* The helpers of the wizard.                                              *)
(***************************************************************************)

\* str(x)
Str(x) == IF x = NoneText THEN <<"N","o","n","e">> ELSE x

Providers == {"OpenAI", "Gemini"}

\* the environment variable of a provider (app.py 48, 189; agents.py 26-34)
EnvVar(provider_name) ==
    IF provider_name = "OpenAI" THEN "OPENAI_API_KEY" ELSE "GOOGLE_API_KEY"

\* key.strip().strip("'").strip('"')
StripKey(key) == StripChars(StripChars(Strip(key), {"'"}), {"\""})

\* get_api_key (app.py 47-50)
get_api_key(env, provider_name) == StripKey(env[EnvVar(provider_name)])

\* ResumeCrew._setup_llm (agents.py 24-39): the api_key handed to LLM(...),
\* NoneText for api_key=None
setup_llm_key(env, provider_name) ==
    LET api_key == StripKey(env[IF provider_name = "Gemini" THEN "GOOGLE_API_KEY"
                                ELSE "OPENAI_API_KEY"])
    IN  IF api_key # <<>> THEN api_key ELSE NoneText

\* parse_feedback (app.py 159-174) from line k on
RECURSIVE ParseFrom(_, _, _, _, _)
ParseFrom(ls, k, section, p, secs) ==
    IF k > Len(ls) THEN secs
    ELSE LET l == Lower(ls[k])
             sec == SectionAfter(section, l)
             pr == PrioAfter(p, l)
             item == ItemOf(ls[k])
         IN  ParseFrom(ls, k + 1, sec, pr,
                       IF IsBullet(ls[k]) /\ Len(item) > 3
                       THEN [secs EXCEPT ![sec][pr] = Append(@, item)]
                       ELSE secs)

parse_feedback(text) ==
    ParseFrom(Split(Str(text), <<"\n">>), 1, "requirements", "medium", EmptySections)

\* the check boxes of one priority of one category (app.py 274-286): key,
\* label and the value a box has when it is first shown
BoxesOf(category, p, items) ==
    [i \in 1..Len(items) |->
        [key |-> <<category, p, i - 1>>, item |-> items[i], value |-> (p # "low")]]

\* render_priority_group (app.py 270-286)
render_priority_group(category, data) ==
    BoxesOf(category, "high", data["high"])
        \o BoxesOf(category, "med", data["medium"])
        \o BoxesOf(category, "low", data["low"])

\* the check boxes of the Analysis page in the order it shows them (288-290)
CheckBoxes(feedback) ==
    render_priority_group("Skills & Keywords", feedback["requirements"])
        \o render_priority_group("Qualification Gaps", feedback["qualifications"])

\* selected_items: the labels of the ticked boxes, in the order of the page
RECURSIVE SelectedOf(_, _)
SelectedOf(boxes, ticked) ==
    IF boxes = <<>> THEN <<>>
    ELSE (IF boxes[1].key \in ticked THEN <<boxes[1].item>> ELSE <<>>)
            \o SelectedOf(Tail(boxes), ticked)

TransformationLog ==
    <<"T","R","A","N","S","F","O","R","M","A","T","I","O","N"," ","L","O","G">>
RevisedResume == <<"R","E","V","I","S","E","D"," ","R","E","S","U","M","E">>
LogPlaceholder ==
    <<"A","I"," ","s","u","m","m","a","r","y"," ","n","o","t"," ",
      "g","e","n","e","r","a","t","e","d","."," ","R","e","f","e","r"," ","t","o"," ",
      "s","e","l","e","c","t","e","d"," ","i","m","p","r","o","v","e","m","e","n","t","s"," ",
      "b","e","l","o","w",".">>

TemplateNames == {"Executive", "Modern", "ATS-Friendly"}

\* TEMPLATES (app.py 40-44)
TEMPLATES ==
    [t \in TemplateNames |->
        IF t = "Executive"
        THEN [font |-> "Times New Roman", align |-> "CENTER", color |-> <<0, 0, 0>>]
        ELSE IF t = "Modern"
        THEN [font |-> "Arial", align |-> "LEFT", color |-> <<41, 128, 185>>]
        ELSE [font |-> "Courier", align |-> "LEFT", color |-> <<0, 0, 0>>]]

HeadingLimit == 50

\* the role of a line after the first (app.py 110-118); a blank line gives nothing
RECURSIVE DocxBody(_, _)
DocxBody(ls, k) ==
    IF k > Len(ls) THEN <<>>
    ELSE (IF Strip(ls[k]) = <<>> THEN <<>>
          ELSE IF Len(ls[k]) < HeadingLimit /\ (IsUpper(ls[k]) \/ EndsWith(ls[k], <<":">>))
          THEN <<[role |-> "heading", text |-> Strip(ls[k])]>>
          ELSE <<[role |-> "paragraph", text |-> Strip(ls[k])]>>)
            \o DocxBody(ls, k + 1)

\* create_templated_docx (app.py 99-121).  doc.add_heading(text) gives the
\* paragraph a run only when text is not empty, so h.runs[0] raises IndexError
\* for an empty first line.
create_templated_docx(text, template_name) ==
    LET style == TEMPLATES[template_name]
        clean_text == Strip(Replace(Split(text, TransformationLog)[1], RevisedResume, <<>>))
        ls == Split(clean_text, <<"\n">>)
    IN  IF Strip(ls[1]) = <<>>
        THEN [raised |-> "IndexError", segments |-> <<>>, align |-> style.align]
        ELSE [raised |-> "none",
              segments |-> <<[role |-> "title", text |-> Strip(ls[1])]>> \o DocxBody(ls, 2),
              align |-> style.align]

\* what a run of the script shows
BlankPage ==
    [crash |-> "none", error |-> "none", log |-> <<>>, docx |-> "none", pdf |-> "none"]

\* STEP 1 (app.py 206-247) with no button pressed
RenderSetup(opt, tdef) ==
    [page |-> BlankPage, optimized_result |-> opt, text_default |-> NoneText]

\* STEP 2 (app.py 250-305) with no button pressed: st.progress ends the run
\* when the score is not in 0..100
RenderAnalysis(analysis, opt) ==
    [page |-> [BlankPage EXCEPT
                 !.crash = IF st_progress(extract_score(Str(analysis))) = "shown"
                           THEN "none" ELSE "StreamlitAPIException"],
     optimized_result |-> opt, text_default |-> NoneText]

\* the Data Splitting of STEP 3 (app.py 319-324): <<resume_part, log_part>>, or
\* ValueError when the split gives more than two parts
SplitResult(full_text) ==
    LET parts == Split(full_text, TransformationLog)
    IN  IF Contains(full_text, TransformationLog)
        THEN IF Len(parts) = 2
             THEN [raised |-> "none", resume_part |-> parts[1], log_part |-> parts[2]]
             ELSE [raised |-> "ValueError", resume_part |-> <<>>, log_part |-> <<>>]
        ELSE [raised |-> "none", resume_part |-> full_text, log_part |-> LogPlaceholder]

\* STEP 3 (app.py 308-358) with no button pressed.  tdef is the value the text
\* area was last built with (NoneText: it was not shown), edit what the user
\* typed into it (NoneText: nothing); a text area built with another value is a
\* new one and gives that value.  pdfFails: create_pdf raises.
RenderResults(opt, tdef, edit, template, pdfFails) ==
    LET sp == SplitResult(opt)
        d == Strip(Replace(sp.resume_part, RevisedResume, <<>>))
        value == IF d = tdef THEN (IF edit # NoneText THEN edit ELSE opt) ELSE d
        docx == create_templated_docx(value, template)
    IN  IF sp.raised # "none"
        THEN [page |-> [BlankPage EXCEPT !.crash = sp.raised],
              optimized_result |-> opt, text_default |-> NoneText]
        ELSE IF docx.raised # "none"
        THEN [page |-> [BlankPage EXCEPT !.crash = docx.raised, !.log = Strip(sp.log_part)],
              optimized_result |-> value, text_default |-> d]
        ELSE [page |-> [BlankPage EXCEPT !.log = Strip(sp.log_part), !.docx = "offered",
                                         !.pdf = IF pdfFails THEN "PDF Error" ELSE "offered"],
              optimized_result |-> value, text_default |-> d]

(***************************************************************************)
(* clean_for_latin1 and create_pdf (app.py 58-97), and the two renderers   *)
(* applied to one text.  A character outside ASCII is one element, named   *)
(* by its code point.                                                      *)
(***************************************************************************)

\* chars (lines 60-64)
Latin1Replacements ==
    ("u2013" :> <<"-">>) @@ ("u2014" :> <<"-">>) @@ ("u2018" :> <<"'">>)
    @@ ("u2019" :> <<"'">>) @@ ("u201c" :> <<"\"">>) @@ ("u201d" :> <<"\"">>)
    @@ ("u2022" :> <<"*">>) @@ ("u2026" :> <<".", ".", ".">>) @@ ("u00a0" :> <<" ">>)
    @@ ("ufb01" :> <<"f", "i">>) @@ ("ufb02" :> <<"f", "l">>)

\* the characters of the texts here that Latin-1 cannot encode
NonLatin1 == CyrillicUpper \cup CyrillicLower \cup {"u201A"}

\* what lines 65-66 make of one character: its replacement, nothing when
\* encode('latin-1', 'ignore') drops it, else itself
CleanChar(c) ==
    IF c \in DOMAIN Latin1Replacements THEN Latin1Replacements[c]
    ELSE IF c \in NonLatin1 THEN <<>>
    ELSE <<c>>

\* clean_for_latin1 (lines 58-66)
clean_for_latin1(text) == Concat([i \in 1..Len(text) |-> CleanChar(text[i])])

\* the lines after the first (lines 85-96): a blank line gives a gap
RECURSIVE PdfBody(_, _)
PdfBody(ls, k) ==
    IF k > Len(ls) THEN <<>>
    ELSE (IF Strip(ls[k]) = <<>> THEN <<[role |-> "gap", text |-> <<>>]>>
          ELSE IF Len(ls[k]) < HeadingLimit /\ (IsUpper(ls[k]) \/ EndsWith(ls[k], <<":">>))
          THEN <<[role |-> "heading", text |-> Strip(ls[k])]>>
          ELSE <<[role |-> "paragraph", text |-> Strip(ls[k])]>>)
            \o PdfBody(ls, k + 1)

\* create_pdf (lines 68-97)
create_pdf(text, template_name) ==
    LET style == TEMPLATES[template_name]
        safe_text == clean_for_latin1(text)
        clean_text == Strip(Replace(Split(safe_text, TransformationLog)[1],
                                    RevisedResume, <<>>))
        ls == Split(clean_text, <<"\n">>)
    IN  [raised |-> "none",
         segments |-> <<[role |-> "title", text |-> Strip(ls[1])]>> \o PdfBody(ls, 2),
         align |-> IF style.align = "CENTER" THEN "C" ELSE "L"]

MaxResumeLines == 3

\* a line of n times the character c
Run(c, n) == [i \in 1..n |-> c]

\* the lines of the resumes rendered: a name, an upper-case heading, a heading
\* by its colon, a blank line, lines of 49 and of 50 characters, a line of
\* Cyrillic capitals, a line of capitals and a small Cyrillic letter, and a
\* line of 49 characters that holds an ellipsis
ResumeLines ==
    {<<"J","a","n","e">>, <<"S","K","I","L","L","S">>, <<"G","o",":">>, <<>>,
     Run("x", 48) \o <<":">>, Run("X", 50),
     <<"u0414","u0410">>, <<"S","Q","L"," ","u0434">>,
     Run("x", 47) \o <<"u2026", ":">>}

ResumeTexts == {Join(ls, <<"\n">>) : ls \in SeqsUpTo(ResumeLines, MaxResumeLines)}

NotRendered == [raised |-> "pending", segments |-> <<>>, align |-> "none"]

RenderInit ==
    /\ resumeText \in ResumeTexts
    /\ renderTemplate \in TemplateNames
    /\ docxDoc = NotRendered
    /\ pdfDoc = NotRendered
    /\ IdleBut("render")

\* line 348
CreateDocx ==
    /\ docxDoc = NotRendered
    /\ docxDoc' = create_templated_docx(resumeText, renderTemplate)
    /\ UNCHANGED <<resumeText, renderTemplate, pdfDoc, notRender>>

\* line 352
CreatePdf ==
    /\ pdfDoc = NotRendered
    /\ pdfDoc' = create_pdf(resumeText, renderTemplate)
    /\ UNCHANGED <<resumeText, renderTemplate, docxDoc, notRender>>

RenderNext == CreateDocx \/ CreatePdf

SpecRender == RenderInit /\ [][RenderNext]_vars

\* the roles of the lines a renderer wrote: a gap writes nothing
RECURSIVE RolesOf(_)
RolesOf(segments) ==
    IF segments = <<>> THEN <<>>
    ELSE (IF segments[1].role = "gap" THEN <<>> ELSE <<segments[1].role>>)
            \o RolesOf(Tail(segments))

\* the roles the rule gives the lines ls from the k-th on: the first line that
\* is not empty is the title, a later one a heading when it has fewer than 50
\* characters and is upper-case or ends with a colon, else a paragraph
RECURSIVE RuleRoles(_, _, _)
RuleRoles(ls, k, titled) ==
    IF k > Len(ls) THEN <<>>
    ELSE IF Strip(ls[k]) = <<>> THEN RuleRoles(ls, k + 1, titled)
    ELSE <<IF ~titled THEN "title"
           ELSE IF Len(ls[k]) < 50 /\ (IsUpper(ls[k]) \/ ls[k][Len(ls[k])] = ":")
           THEN "heading" ELSE "paragraph">>
            \o RuleRoles(ls, k + 1, TRUE)

\* C12: for every resume text the PDF renderer and the DOCX renderer give the
\* lines the same roles, those of the rule: the first line that is not empty
\* is the title, a later one is a heading exactly when it has fewer than 50
\* characters and is upper-case or ends with a colon, and a paragraph else.
C12_SameSegmentation ==
    (docxDoc.raised = "none" /\ pdfDoc.raised = "none") =>
        /\ RolesOf(pdfDoc.segments) = RolesOf(docxDoc.segments)
        /\ RolesOf(docxDoc.segments) = RuleRoles(Split(resumeText, <<"\n">>), 1, FALSE)

(***************************************************************************)
(* The wizard (app.py 30-37, 177-358).  One action is one interaction of   *)
(* the user: the run of the script it starts, the handler of the button    *)
(* pressed, and the run that st.rerun() starts after it.                   *)
(* st.session_state.original_filename and .original_text are written and   *)
(* never read, and are left out.                                           *)
(***************************************************************************)

EnvVars == {"OPENAI_API_KEY", "GOOGLE_API_KEY"}

\* the values a key has in the environment, and what the user types as a key
EnvKeys == {<<>>, <<"k">>, <<"'","'">>}
KeyInputs == {<<>>, <<"k"," ">>}

JdGate == 50

\* the lengths of the job texts the user types
JdLengths == {50, 51}

\* the fetches of the user in the wizard: one that fails, and one of a page
\* whose body is one paragraph of 51 characters
WizardRequests ==
    {[urlLen |-> 20, outcome |-> "raise", msgLen |-> MessageOverhead + 20,
      page |-> NoPage],
     [urlLen |-> 20, outcome |-> "ok", msgLen |-> 0,
      page |-> [NoPage EXCEPT !.body =
                  <<<<[name |-> "p", len |-> 51, spaces |-> 0, noise |-> FALSE,
                       priority |-> FALSE, head |-> "h1"]>>>>]]}

\* what crew.analyze() answers
AnalysisReplies ==
    {<<"7","/","1","0","0","\n">> \o <<"-"," ">> \o TagHigh
        \o <<" ","K","u","b","e","r","n","e","t","e","s","\n","-"," ">> \o TagLow
        \o <<" ","D","o","c","k","e","r">>,
     <<"1","0","1","/","1","0","0","\n","-"," ">> \o TagHigh
        \o <<" ","K","u","b","e","r","n","e","t","e","s">>}

\* what crew.optimize() answers: the format asked for, no log marker, and the
\* marker twice
RewriteReplies ==
    {RevisedResume \o <<"\n","J","a","n","e","\n","S","K","I","L","L","S",":","\n","G","o","\n">>
        \o TransformationLog \o <<"\n","A","d","d","e","d"," ","G","o">>,
     <<"J","a","n","e","\n","G","o">>,
     <<"J","a","n","e","\n">> \o TransformationLog \o <<"\n","A","\n">>
        \o TransformationLog \o <<"\n","B">>}

\* what the user leaves in the "Final Polish" text area
ResumeEdits == {<<>>, <<"J","o">>}

\* the precomputed feedback and boxes of each answer
FeedbackOf == [a \in AnalysisReplies |-> parse_feedback(a)]
BoxesIn == [a \in AnalysisReplies |-> CheckBoxes(FeedbackOf[a])]

\* the keys of the check boxes of an answer, and of all answers
KeysIn(a) == {BoxesIn[a][i].key : i \in 1..Len(BoxesIn[a])}
BoxKeys == UNION {KeysIn(a) : a \in AnalysisReplies}

\* the boxes ticked when the Analysis page is first shown: value=True for high
\* and medium, value=False for low; none when st.progress ended the run
DefaultChecked(analysis) ==
    IF RenderAnalysis(analysis, <<>>).page.crash # "none" THEN {}
    ELSE {BoxesIn[analysis][i].key :
            i \in {j \in 1..Len(BoxesIn[analysis]) : BoxesIn[analysis][j].value}}

NoEvent == [handler |-> "none", llm |-> "none", provider |-> None, api_key |-> NoneText]

Handled(h) == [NoEvent EXCEPT !.handler = h]

\* lines 30-37: the values the script gives the keys session state lacks
SessionDefaults ==
    [step |-> 1, provider |-> "OpenAI", jd_text |-> 0, selected_template |-> "Modern",
     analysis_result |-> NoneText, optimized_result |-> NoneText,
     selected_improvements |-> <<>>]

WizardInit ==
    /\ step = SessionDefaults.step
    /\ provider = SessionDefaults.provider
    /\ jd_text = SessionDefaults.jd_text
    /\ selected_template = SessionDefaults.selected_template
    /\ analysis_result = SessionDefaults.analysis_result
    /\ optimized_result = SessionDefaults.optimized_result
    /\ selected_improvements = SessionDefaults.selected_improvements
    /\ environ \in [EnvVars -> EnvKeys]
    /\ up = FALSE
    /\ resume_path = "unset"
    /\ checked = {}
    /\ text_default = NoneText
    /\ screen = BlankPage
    /\ event = NoEvent
    /\ IdleBut("wizard")

\* create_pdf raises or not; it is called in step 3 only
PdfOutcomes(s) == IF s = 3 THEN BOOLEAN ELSE {FALSE}

\* a run of the script in step s with no button pressed
Rerun(s, analysis, opt, tdef, edit, template, pdfFails) ==
    IF s = 1 THEN RenderSetup(opt, tdef)
    ELSE IF s = 2 THEN RenderAnalysis(analysis, opt)
    ELSE RenderResults(opt, tdef, edit, template, pdfFails)

\* the run r is what the page now shows
Show(r) ==
    /\ screen' = r.page
    /\ optimized_result' = r.optimized_result
    /\ text_default' = r.text_default

\* ---- the sidebar (app.py 177-196)

\* the provider select box (line 179)
SelectProvider(p) ==
    /\ provider' = p
    /\ \E pdfFails \in PdfOutcomes(step) :
          Show(Rerun(step, analysis_result, optimized_result, text_default, NoneText,
                     selected_template, pdfFails))
    /\ event' = Handled("SelectProvider")
    /\ UNCHANGED <<step, environ, up, jd_text, resume_path, analysis_result,
                   selected_improvements, selected_template, checked, notWizard>>

\* "Apply Key" (lines 188-191)
ApplyKey(key_input) ==
    /\ environ' = [environ EXCEPT ![EnvVar(provider)] = Strip(key_input)]
    /\ \E pdfFails \in PdfOutcomes(step) :
          Show(Rerun(step, analysis_result, optimized_result, text_default, NoneText,
                     selected_template, pdfFails))
    /\ event' = Handled("ApplyKey")
    /\ UNCHANGED <<step, provider, up, jd_text, resume_path, analysis_result,
                   selected_improvements, selected_template, checked, notWizard>>

\* "Reset All" (lines 194-196): st.session_state.clear(), then the run that
\* sets the defaults of lines 31-37 again
ResetAll ==
    /\ step' = SessionDefaults.step
    /\ provider' = SessionDefaults.provider
    /\ jd_text' = SessionDefaults.jd_text
    /\ selected_template' = SessionDefaults.selected_template
    /\ analysis_result' = SessionDefaults.analysis_result
    /\ optimized_result' = SessionDefaults.optimized_result
    /\ selected_improvements' = SessionDefaults.selected_improvements
    /\ up' = FALSE
    /\ resume_path' = "unset"
    /\ checked' = {}
    /\ text_default' = NoneText
    /\ screen' = BlankPage
    /\ event' = Handled("ResetAll")
    /\ UNCHANGED <<environ, notWizard>>

\* ---- STEP 1: SETUP (app.py 206-247)

\* the file uploader (lines 208-210)
UploadResume ==
    /\ step = 1
    /\ up' = TRUE
    /\ screen' = BlankPage
    /\ event' = Handled("UploadResume")
    /\ UNCHANGED <<step, provider, environ, jd_text, resume_path, analysis_result,
                   optimized_result, selected_improvements, selected_template, checked,
                   text_default, notWizard>>

RemoveResume ==
    /\ step = 1
    /\ up
    /\ up' = FALSE
    /\ screen' = BlankPage
    /\ event' = Handled("RemoveResume")
    /\ UNCHANGED <<step, provider, environ, jd_text, resume_path, analysis_result,
                   optimized_result, selected_improvements, selected_template, checked,
                   text_default, notWizard>>

\* "Fetch Relevant Content (Beta)" with a URL (lines 217-227)
FetchJob(req) ==
    /\ step = 1
    /\ req.urlLen > 0
    /\ jd_text' = fetch_jd(req).len
    /\ screen' = BlankPage
    /\ event' = Handled("FetchJob")
    /\ UNCHANGED <<step, provider, environ, up, resume_path, analysis_result,
                   optimized_result, selected_improvements, selected_template, checked,
                   text_default, notWizard>>

\* the "Job Description Content" text area (lines 222-227)
EditJobText(n) ==
    /\ step = 1
    /\ jd_text' = n
    /\ screen' = BlankPage
    /\ event' = Handled("EditJobText")
    /\ UNCHANGED <<step, provider, environ, up, resume_path, analysis_result,
                   optimized_result, selected_improvements, selected_template, checked,
                   text_default, notWizard>>

\* the mutant of SetupGate that forgets the key
SetupGate_without_key(resume, jd_length, current_key) == resume /\ jd_length > JdGate

\* line 233
SetupGate(resume, jd_length, current_key) ==
    resume /\ jd_length > JdGate /\ current_key # <<>>

\* lines 242-247
SetupError(resume, jd_length, current_key) ==
    IF current_key = <<>> THEN "configure your API key"
    ELSE IF ~resume THEN "upload your resume"
    ELSE IF jd_length <= JdGate THEN "more detailed job description"
    ELSE "none"

\* "Generate Match Report" (lines 231-247); crew.analyze() answers or raises
GenerateMatchReport ==
    /\ step = 1
    /\ LET current_key == get_api_key(environ, provider)
           called == [handler |-> "GenerateMatchReport", llm |-> "analyze",
                      provider |-> provider,
                      api_key |-> setup_llm_key(environ, provider)]
       IN  IF SetupGate(up, jd_text, current_key)
           THEN /\ resume_path' = "tmp"
                /\ event' = called
                /\ \/ /\ screen' = [BlankPage EXCEPT !.crash = "Exception"]
                      /\ UNCHANGED <<step, up, analysis_result, optimized_result,
                                     checked, text_default>>
                   \/ \E reply \in AnalysisReplies :
                         /\ analysis_result' = reply
                         /\ step' = 2
                         /\ up' = FALSE
                         /\ checked' = DefaultChecked(reply)
                         /\ Show(RenderAnalysis(reply, optimized_result))
           ELSE /\ screen' = [BlankPage EXCEPT
                              !.error = SetupError(up, jd_text, current_key)]
                /\ event' = Handled("GenerateMatchReport")
                /\ UNCHANGED <<step, up, resume_path, analysis_result, optimized_result,
                               checked, text_default>>
    /\ UNCHANGED <<provider, environ, jd_text, selected_improvements, selected_template,
                   notWizard>>

\* ---- STEP 2: ANALYSIS (app.py 250-305)

\* the check boxes and buttons are shown unless st.progress ended the run
AnalysisShown == step = 2 /\ screen.crash # "StreamlitAPIException"

\* a check box (lines 275, 280, 285)
ToggleItem(key) ==
    /\ AnalysisShown
    /\ key \in KeysIn(analysis_result)
    /\ checked' = IF key \in checked THEN checked \ {key} ELSE checked \cup {key}
    /\ screen' = BlankPage
    /\ event' = Handled("ToggleItem")
    /\ UNCHANGED <<step, provider, environ, up, jd_text, resume_path, analysis_result,
                   optimized_result, selected_improvements, selected_template,
                   text_default, notWizard>>

\* "Go Back" (line 295)
GoBack ==
    /\ AnalysisShown
    /\ step' = 1
    /\ checked' = {}
    /\ screen' = BlankPage
    /\ event' = Handled("GoBack")
    /\ UNCHANGED <<provider, environ, up, jd_text, resume_path, analysis_result,
                   optimized_result, selected_improvements, selected_template,
                   text_default, notWizard>>

\* the mutant of RewriteGate that lets an empty selection through
RewriteGate_always(selected_items) == TRUE

\* line 298
RewriteGate(selected_items) == selected_items # <<>>

\* "Apply Selected Improvements & Rewrite" (lines 297-305); crew.optimize()
\* answers or raises
ApplySelected ==
    /\ AnalysisShown
    /\ LET selected_items == SelectedOf(BoxesIn[analysis_result], checked)
       IN  IF RewriteGate(selected_items)
           THEN /\ selected_improvements' = selected_items
                /\ event' = [handler |-> "ApplySelected", llm |-> "optimize",
                             provider |-> provider,
                             api_key |-> setup_llm_key(environ, provider)]
                /\ \/ /\ screen' = [BlankPage EXCEPT !.crash = "Exception"]
                      /\ UNCHANGED <<step, optimized_result, checked, text_default>>
                   \/ \E reply \in RewriteReplies : \E pdfFails \in BOOLEAN :
                         /\ step' = 3
                         /\ checked' = {}
                         /\ Show(RenderResults(reply, NoneText, NoneText,
                                               selected_template, pdfFails))
           ELSE /\ screen' = [BlankPage EXCEPT !.error = "select at least one improvement"]
                /\ event' = Handled("ApplySelected")
                /\ UNCHANGED <<step, optimized_result, selected_improvements, checked,
                               text_default>>
    /\ UNCHANGED <<provider, environ, up, jd_text, resume_path, analysis_result,
                   selected_template, notWizard>>

\* ---- STEP 3: RESULTS (app.py 308-358)

\* a template button (lines 313-315): it is shown before the split
SelectTemplate(t) ==
    /\ step = 3
    /\ selected_template' = t
    /\ \E pdfFails \in BOOLEAN :
          Show(RenderResults(optimized_result, text_default, NoneText, t, pdfFails))
    /\ event' = Handled("SelectTemplate")
    /\ UNCHANGED <<step, provider, environ, up, jd_text, resume_path, analysis_result,
                   selected_improvements, checked, notWizard>>

\* the "Final Polish" text area (lines 328-332): shown unless the split raised
EditResume(edit) ==
    /\ step = 3
    /\ screen.crash # "ValueError"
    /\ \E pdfFails \in BOOLEAN :
          Show(RenderResults(optimized_result, text_default, edit, selected_template,
                             pdfFails))
    /\ event' = Handled("EditResume")
    /\ UNCHANGED <<step, provider, environ, up, jd_text, resume_path, analysis_result,
                   selected_improvements, selected_template, checked, notWizard>>

\* the mutant of StartNewAnalysis that goes to the Analysis step
StartNewAnalysis_to_analysis ==
    /\ step = 3
    /\ screen.crash = "none"
    /\ step' = 2
    /\ checked' = DefaultChecked(analysis_result)
    /\ Show(RenderAnalysis(analysis_result, optimized_result))
    /\ event' = Handled("StartNewAnalysis")
    /\ UNCHANGED <<provider, environ, up, jd_text, resume_path, analysis_result,
                   selected_improvements, selected_template, notWizard>>

\* "Start New Analysis" (lines 357-358): shown when the run reached it
StartNewAnalysis ==
    /\ step = 3
    /\ screen.crash = "none"
    /\ step' = 1
    /\ screen' = BlankPage
    /\ text_default' = NoneText
    /\ event' = Handled("StartNewAnalysis")
    /\ UNCHANGED <<provider, environ, up, jd_text, resume_path, analysis_result,
                   optimized_result, selected_improvements, selected_template, checked,
                   notWizard>>

Next ==
    \/ \E p \in Providers : SelectProvider(p)
    \/ \E k \in KeyInputs : ApplyKey(k)
    \/ ResetAll
    \/ UploadResume
    \/ RemoveResume
    \/ \E req \in WizardRequests : FetchJob(req)
    \/ \E n \in JdLengths : EditJobText(n)
    \/ GenerateMatchReport
    \/ \E key \in BoxKeys : ToggleItem(key)
    \/ GoBack
    \/ ApplySelected
    \/ \E t \in TemplateNames : SelectTemplate(t)
    \/ \E e \in ResumeEdits : EditResume(e)
    \/ StartNewAnalysis

Init == WizardInit

Spec == Init /\ [][Next]_vars

(***************************************************************************)
(* The claims about the wizard.                                            *)
(***************************************************************************)

\* a precondition of the Setup page that the error text names has failed
NamesFailedPrecondition(error, resume, jd_length, current_key) ==
    \/ error = "configure your API key" /\ current_key = <<>>
    \/ error = "upload your resume" /\ ~resume
    \/ error = "more detailed job description" /\ jd_length <= 50

\* C1: the step goes from Setup to Analysis only if, when "Generate Match
\* Report" is pressed, a resume is uploaded, the job text has more than 50
\* characters and the key of the selected provider is not empty; when one of
\* the three fails the step stays Setup, no analysis call is made and the
\* error shown names a precondition that failed.
C1_SetupGate ==
    [][LET current_key == StripChars(StripChars(Strip(environ[EnvVar(provider)]),
                                                {"'"}), {"\""})
           gates == up /\ jd_text > 50 /\ current_key # <<>>
       IN  /\ (step = 1 /\ step' = 2) => gates
           /\ (step = 1 /\ event'.handler = "GenerateMatchReport" /\ ~gates)
                 => /\ step' = 1
                    /\ event'.llm = "none"
                    /\ analysis_result' = analysis_result
                    /\ NamesFailedPrecondition(screen'.error, up, jd_text, current_key)
      ]_vars

\* "Generate Match Report" was pressed with a key and a long enough job text
\* and no resume, and the page stayed Setup and asks for the resume
C1_Witness ==
    /\ step = 1
    /\ event.handler = "GenerateMatchReport"
    /\ event.llm = "none"
    /\ ~up /\ jd_text > 50 /\ get_api_key(environ, provider) # <<>>
    /\ screen.error = "upload your resume"

\* the boxes of the Analysis page that are ticked
TickedItems == KeysIn(analysis_result) \cap checked

\* C2: the step goes from Analysis to Results only if an item is ticked when
\* the rewrite is asked for; with no item ticked the step stays Analysis, no
\* rewrite call is made, and the stored selection and the optimized result
\* stay as they were.
C2_RewriteGate ==
    [][/\ (step = 2 /\ step' = 3) => TickedItems # {}
       /\ (step = 2 /\ event'.handler = "ApplySelected" /\ TickedItems = {})
             => /\ step' = 2
                /\ event'.llm = "none"
                /\ selected_improvements' = selected_improvements
                /\ optimized_result' = optimized_result
      ]_vars

\* the rewrite was asked for on an Analysis page that has boxes, none of them
\* ticked, and the page stayed Analysis and asks for a selection
C2_Witness ==
    /\ step = 2
    /\ event.handler = "ApplySelected"
    /\ event.llm = "none"
    /\ KeysIn(analysis_result) # {}
    /\ checked = {}
    /\ screen.error = "select at least one improvement"

\* C3: the step is always 1 (Setup), 2 (Analysis) or 3 (Results), and it
\* changes only from Setup to Analysis, from Analysis to Results, from
\* Analysis back to Setup and from Results to Setup: never from Setup to
\* Results nor from Results to Analysis.
C3_StepTransitions ==
    /\ [](step \in {1, 2, 3})
    /\ [][step' # step =>
            <<step, step'>> \in {<<1, 2>>, <<2, 3>>, <<2, 1>>, <<3, 1>>}]_vars

\* "Start New Analysis" took the wizard from Results back to Setup
C3_Witness ==
    /\ step = 1
    /\ event.handler = "StartNewAnalysis"
    /\ optimized_result # NoneText

\* C7: the split of the rewrite's answer in the Results step never raises,
\* whatever the answer: also when it holds the marker "TRANSFORMATION LOG"
\* more than once.
C7_SplitNeverRaises ==
    step = 3 => screen.crash # "ValueError"

\* C9: in the Results step a failure to render one encoding is caught at its
\* download button: for every resume text, the empty one included, the run
\* of the script does not end in an uncaught error, and the other encoding's
\* download is offered.
C9_EncodingFailureCaught ==
    (step = 3 /\ screen.crash # "ValueError")
        => /\ screen.crash = "none"
           /\ "offered" \in {screen.docx, screen.pdf}

\* C13: while the step stays Results, every run of the page shows the log of
\* the rewrite's answer: a page that shows the text after the marker
\* "TRANSFORMATION LOG" of the answer is followed, after another template is
\* chosen or any other interaction that stays in Results, by a page that
\* shows the same log, not the placeholder.
C13_LogKept ==
    [][(/\ step = 3 /\ step' = 3
        /\ screen.crash # "ValueError"
        /\ screen.log # Strip(LogPlaceholder))
          => screen'.log = screen.log
      ]_vars

\* C14: whatever the user does (the provider changed or a key applied on the
\* Analysis page included), crew.analyze() and crew.optimize() are called
\* only with a key that is not empty for the provider selected at the call.
C14_CallsHaveKey ==
    event.llm \in {"analyze", "optimize"} =>
        /\ event.provider \in Providers
        /\ event.api_key # NoneText
        /\ event.api_key # <<>>

====
